---- MODULE Spec2Model ----
(***************************************************************************)
(* Model of ross/stochastic/st_results.py: the four result classes         *)
(* (ST_CampbellResults, ST_FrequencyResponseResults,                       *)
(* ST_TimeResponseResults, ST_ForcedResponseResults) and their plotting    *)
(* methods.  A behaviour constructs one results object and then calls its  *)
(* plotting methods; each call is one action that leaves the returned      *)
(* figure(s), or the exception raised, in the state.                       *)
(*                                                                         *)
(* Numbers.  Percentile levels are kept in half-percent units (level 62.5  *)
(* is 125), so that 50 + p/2 is exact for every integer p.  A curve is a   *)
(* sequence of exact rationals num/div with one divisor per curve: 200     *)
(* for a percentile curve (linear interpolation between order statistics), *)
(* the ensemble size for a mean curve, 1 for a stored array.  Style        *)
(* numbers are kept in tenths (line_width 2.5 is 25, line_alpha 0.6 is 6). *)
(* Legend styling (muted_color, muted_alpha, legend fills) and axis labels *)
(* are not part of the model.                                              *)
(***************************************************************************)
EXTENDS Integers, Sequences, FiniteSets, TLC

VARIABLES obj, pc, call, ret, exc, entered, requested, created, kw, mem, runs

vars == <<obj, pc, call, ret, exc, entered, requested, created, kw, mem, runs>>

-----------------------------------------------------------------------------
(* Bounds of the model *)

\* size of the stochastic ensemble (number of simulated samples)
NSamp == 3
\* number of sample points of the x array (speeds, frequencies, time steps)
NPts == 2
\* number of modes of the Campbell diagram
NModes == 2
\* number of rotor nodes (4 degrees of freedom each)
NNodes == 2

-----------------------------------------------------------------------------
(* Encodings *)

\* Python's None for the node and dof arguments (node and dof are >= 0)
None == -1
\* a style attribute the call does not pass (matplotlib's ax.plot calls)
Unset == 0
\* the exception field when the call returned normally
NoExc == "none"
\* plot_type when the caller does not pass it
NotPassed == "<not passed>"

-----------------------------------------------------------------------------
(* numpy *)

RECURSIVE Insert(_, _)
Insert(x, s) ==
    IF s = <<>> THEN <<x>>
    ELSE IF x <= Head(s) THEN <<x>> \o s
    ELSE <<Head(s)>> \o Insert(x, Tail(s))

RECURSIVE np_sort(_)
\* np.sort: ascending order
np_sort(s) == IF s = <<>> THEN <<>> ELSE Insert(Head(s), np_sort(Tail(s)))

RECURSIVE SumSeq(_)
SumSeq(s) == IF s = <<>> THEN 0 ELSE Head(s) + SumSeq(Tail(s))

\* np.percentile refuses levels outside [0, 100] with ValueError
QuantileIsValid(q) == 0 <= q /\ q <= 200

\* the interpolation run on the ensemble as stored, without sorting it
PercentileUnsorted(v, q) ==
    LET n    == Len(v)
        num  == q * (n - 1)
        lo   == num \div 200
        frac == num % 200
    IN  IF frac = 0 THEN 200 * v[lo + 1]
        ELSE 200 * v[lo + 1] + frac * (v[lo + 2] - v[lo + 1])

\* np.percentile of one ensemble v at level q/2 percent, times 200:
\* the virtual index is (q/200)*(n-1); linear interpolation between the
\* two neighbouring order statistics
Percentile1(v, q) ==
    LET n    == Len(v)
        s    == np_sort(v)
        num  == q * (n - 1)
        lo   == num \div 200
        frac == num % 200
    IN  IF frac = 0 THEN 200 * s[lo + 1]
        ELSE 200 * s[lo + 1] + frac * (s[lo + 2] - s[lo + 1])

\* the reduction run along the other axis of the array
LanesAlongOtherAxis(a, axis) ==
    IF axis = 0 THEN a
    ELSE [j \in 1..Len(a[1]) |-> [i \in 1..Len(a) |-> a[i][j]]]

\* the ensembles a reduction along `axis` of the 2-D array a runs over:
\* axis=1 reduces each row, axis=0 reduces each column
Lanes(a, axis) ==
    IF axis = 1 THEN a
    ELSE [j \in 1..Len(a[1]) |-> [i \in 1..Len(a) |-> a[i][j]]]

\* np.percentile(a, q/2, axis=axis), times 200
np_percentile(a, q, axis) ==
    LET L == Lanes(a, axis) IN [k \in 1..Len(L) |-> Percentile1(L[k], q)]

\* np.mean(a, axis=axis): the sums; the divisor is MeanDiv(a, axis)
np_mean(a, axis) ==
    LET L == Lanes(a, axis) IN [k \in 1..Len(L) |-> SumSeq(L[k])]

MeanDiv(a, axis) == Len(Lanes(a, axis)[1])

\* a[..., d] of a 3-D array a (d counts from 0)
LastAxis(a, d) == [i \in 1..Len(a) |-> [j \in 1..Len(a[i]) |-> a[i][j][d + 1]]]

-----------------------------------------------------------------------------
(* Levels requested from np.percentile, in half-percent units *)

\* percentile p
Level(p) == 2 * p
\* the half width taken as p instead of p / 2
ConfUpperFullWidth(p) == 100 + 2 * p

\* 50 + p / 2
ConfUpper(p) == 100 + p
\* the lower level computed like the upper one
ConfLowerAsUpper(p) == 100 + p

\* 50 - p / 2
ConfLower(p) == 100 - p

-----------------------------------------------------------------------------
(* Sources of a curve's coordinates, and lines *)

Src(kind, a, q, axis) == [kind |-> kind, a |-> a, q |-> q, axis |-> axis]

\* a stored 1-D array used as it is (speed_range, time_range, ...)
Stored(x)          == Src("stored", <<x>>, 0, 1)
Pct(a, q, axis)    == Src("percentile", a, q, axis)
Mean(a, axis)      == Src("mean", a, 0, axis)

SrcVals(s) ==
    CASE s.kind = "stored"     -> s.a[1]
      [] s.kind = "percentile" -> np_percentile(s.a, s.q, s.axis)
      [] s.kind = "mean"       -> np_mean(s.a, s.axis)

SrcDiv(s) ==
    CASE s.kind = "stored"     -> 1
      [] s.kind = "percentile" -> 200
      [] s.kind = "mean"       -> MeanDiv(s.a, s.axis)


Label(fmt, args) == [fmt |-> fmt, args |-> args]

\* one fig.line(...) / ax.plot(...) call, before its arguments are evaluated
Step(x, y, z, color, alpha, width, label, err) ==
    [x |-> x, y |-> y, z |-> z, line_color |-> color, line_alpha |-> alpha,
     line_width |-> width, legend_label |-> label, err |-> err]

\* the line a step draws
LineOf(st) ==
    [x |-> SrcVals(st.x), xdiv |-> SrcDiv(st.x),
     y |-> SrcVals(st.y), ydiv |-> SrcDiv(st.y),
     z |-> st.z,
     line_color |-> st.line_color, line_alpha |-> st.line_alpha,
     line_width |-> st.line_width, legend_label |-> st.legend_label]

\* one call of np.percentile: the level asked for, and the legend label of the
\* line it is computed for
SrcReq(s, label) ==
    IF s.kind = "percentile" THEN <<[q |-> s.q, label |-> label]>> ELSE <<>>

\* the np.percentile calls of a step, in evaluation order (x, then y)
StepReq(st) == SrcReq(st.x, st.legend_label) \o SrcReq(st.y, st.legend_label)

StepBadLevel(st) == \E i \in 1..Len(StepReq(st)) : ~QuantileIsValid(StepReq(st)[i].q)

StepFails(st) == StepBadLevel(st) \/ st.err # NoExc

\* index of the first step that raises, 0 when none does
FirstFail(plan) ==
    IF \E i \in 1..Len(plan) : StepFails(plan[i])
    THEN CHOOSE i \in 1..Len(plan) :
            StepFails(plan[i]) /\ \A k \in 1..(i - 1) : ~StepFails(plan[k])
    ELSE 0

\* the coordinates are evaluated before the label: a bad level raises first
PlanExc(plan) ==
    LET f == FirstFail(plan)
    IN  IF f = 0 THEN NoExc
        ELSE IF StepBadLevel(plan[f]) THEN "ValueError" ELSE plan[f].err

RECURSIVE Flatten(_)
Flatten(ss) == IF ss = <<>> THEN <<>> ELSE Head(ss) \o Flatten(Tail(ss))

\* the calls of np.percentile made, up to and including the raising one
PlanRequested(plan) ==
    LET f    == FirstFail(plan)
        last == IF f = 0 THEN Len(plan) ELSE f
        all  == Flatten([i \in 1..last |-> StepReq(plan[i])])
    IN  IF f = 0 \/ ~StepBadLevel(plan[f]) THEN all
        ELSE LET bad == CHOOSE i \in 1..Len(all) :
                           ~QuantileIsValid(all[i].q)
                           /\ \A k \in 1..(i - 1) : QuantileIsValid(all[k].q)
             IN  SubSeq(all, 1, bad)

PlanLines(plan) == [i \in 1..Len(plan) |-> LineOf(plan[i])]

Figure(lib, title, plan) == [lib |-> lib, title |-> title, lines |-> PlanLines(plan)]

-----------------------------------------------------------------------------
(* Module-level palettes and figure constructors *)

Color(palette, i) == <<palette, i>>

NoLabel == Label("", <<>>)

\* fig.line(x=..., y=..., line_color=..., line_alpha=..., line_width=..., legend_label=...)
BokehLine(x, y, color, alpha, width, label) ==
    Step(Stored(x), y, <<>>, color, alpha, width, label, NoExc)

\* fig.line(xs, ys, ...) with both coordinates computed
BokehCurve(x, y, color, alpha, width, label) ==
    Step(x, y, <<>>, color, alpha, width, label, NoExc)

\* ax.plot(xs, ys, zs, color=..., zdir="x", label=...)
MplLine(x, y, z, color, width, label, err) ==
    Step(x, y, z, color, Unset, width, label, err)

\* one figure a method builds: the method, the library, the title, the lines
Fig(method, lib, title, plan) ==
    [method |-> method, lib |-> lib, title |-> title, plan |-> plan]

\* dict.setdefault for every default: a key the caller passed keeps its value
SetDefaults(kwargs, defaults) ==
    kwargs \cup {d \in defaults : ~\E e \in kwargs : e[1] = d[1]}

-----------------------------------------------------------------------------
(* Running a call: the figures are built in order, a raising step ends it *)

FigFails(f) == FirstFail(f.plan) # 0

\* how many of the figures are started (figure() is called for each)
Started(figs) ==
    IF \E i \in 1..Len(figs) : FigFails(figs[i])
    THEN CHOOSE i \in 1..Len(figs) :
            FigFails(figs[i]) /\ \A k \in 1..(i - 1) : ~FigFails(figs[k])
    ELSE Len(figs)

RunPlan(figs) == Flatten([i \in 1..Started(figs) |-> figs[i].plan])

\* what a call leaves behind.  pre is an exception raised before any figure
\* is created; shape is "figure", "grid" or "axes"
Outcome(head, pre, figs, shape, kwargs) ==
    IF pre # NoExc
    THEN [entered |-> head, exc |-> pre, requested |-> <<>>, created |-> 0,
          ret |-> [shape |-> "none", figs |-> <<>>], kw |-> kwargs]
    ELSE LET e == PlanExc(RunPlan(figs))
         IN  [entered   |-> head \o [i \in 1..Started(figs) |-> figs[i].method],
              exc       |-> e,
              requested |-> PlanRequested(RunPlan(figs)),
              created   |-> Started(figs),
              ret       |-> IF e = NoExc
                            THEN [shape |-> shape,
                                  figs  |-> [i \in 1..Len(figs) |->
                                               Figure(figs[i].lib, figs[i].title,
                                                      figs[i].plan)]]
                            ELSE [shape |-> "none", figs |-> <<>>],
              kw        |-> kwargs]

-----------------------------------------------------------------------------
(* class ST_CampbellResults *)

\* default_values = dict(line_width=3.0, line_alpha=1.0)
CampbellDefaults == {<<"line_width", 30>>, <<"line_alpha", 10>>}

ST_CampbellResults_plot_nat_freq_plan(self, percentile, conf_interval) ==
    Flatten([jj \in 1..Len(self.wd) |->
        LET j == jj - 1 IN
        <<BokehLine(self.speed_range, Mean(self.wd[jj], 1),
                    Color("colors1", j), 10, 30,
                    Label("Mean - Mode {}", <<j + 1>>))>>
        \o [ii \in 1..Len(percentile) |->
              BokehLine(self.speed_range,
                        Pct(self.wd[jj], Level(percentile[ii]), 1),
                        Color("colors2", ii - 1), 6, 25,
                        Label("percentile: {}%", <<percentile[ii]>>))]
        \o Flatten([ii \in 1..Len(conf_interval) |->
              <<BokehLine(self.speed_range,
                          Pct(self.wd[jj], ConfUpper(conf_interval[ii]), 1),
                          Color("colors1", j), 6, 25,
                          Label("confidence interval: {}% - Mode {}",
                                <<conf_interval[ii], j + 1>>)),
                BokehLine(self.speed_range,
                          Pct(self.wd[jj], ConfLower(conf_interval[ii]), 1),
                          Color("colors1", j), 6, 25,
                          Label("confidence interval: {}% - Mode {}",
                                <<conf_interval[ii], j + 1>>))>>])])

ST_CampbellResults_plot_nat_freq_fig(self, percentile, conf_interval) ==
    Fig("plot_nat_freq", "bokeh", Label("Campbell Diagram", <<>>),
        ST_CampbellResults_plot_nat_freq_plan(self, percentile, conf_interval))

ST_CampbellResults_plot_log_dec_plan(self, percentile0, conf_interval0) ==
    LET percentile    == np_sort(percentile0)
        conf_interval == np_sort(conf_interval0)
    IN
    Flatten([jj \in 1..Len(self.log_dec) |->
        LET j == jj - 1 IN
        <<BokehLine(self.speed_range, Mean(self.log_dec[jj], 1),
                    Color("colors1", j), 10, 30,
                    Label("Mean - Mode {}", <<j + 1>>))>>
        \o [ii \in 1..Len(percentile) |->
              BokehLine(self.speed_range,
                        Pct(self.log_dec[jj], Level(percentile[ii]), 1),
                        Color("colors2", ii - 1), 6, 25,
                        Label("percentile {}", <<percentile[ii]>>))]
        \o Flatten([ii \in 1..Len(conf_interval) |->
              <<BokehLine(self.speed_range,
                          Pct(self.log_dec[jj], ConfUpper(conf_interval[ii]), 1),
                          Color("colors1", j), 6, 25,
                          Label("confidence interval: {}% - Mode {}",
                                <<conf_interval[ii], j + 1>>)),
                BokehLine(self.speed_range,
                          Pct(self.log_dec[jj], ConfLower(conf_interval[ii]), 1),
                          Color("colors1", j), 6, 25,
                          Label("confidence interval: {}% - Mode {}",
                                <<conf_interval[ii], j + 1>>))>>])])

ST_CampbellResults_plot_log_dec_fig(self, percentile, conf_interval) ==
    Fig("plot_log_dec", "bokeh", Label("Campbell Diagram", <<>>),
        ST_CampbellResults_plot_log_dec_plan(self, percentile, conf_interval))

\* def plot_nat_freq(self, percentile=[], conf_interval=[], harmonics=[1], **kwargs):
\* the body never reads harmonics
ST_CampbellResults_plot_nat_freq(self, percentile, conf_interval, harmonics, kwargs) ==
    Outcome(<<>>, NoExc,
            <<ST_CampbellResults_plot_nat_freq_fig(self, percentile, conf_interval)>>,
            "figure", SetDefaults(kwargs, CampbellDefaults))

\* def plot_log_dec(self, percentile=[], conf_interval=[], harmonics=[1], **kwargs):
\* the body never reads harmonics
ST_CampbellResults_plot_log_dec(self, percentile, conf_interval, harmonics, kwargs) ==
    Outcome(<<>>, NoExc,
            <<ST_CampbellResults_plot_log_dec_fig(self, percentile, conf_interval)>>,
            "figure", SetDefaults(kwargs, CampbellDefaults))

\* fig0 = self.plot_nat_freq(percentile, conf_interval, **kwargs);
\* fig1 = self.plot_log_dec(percentile, conf_interval, **kwargs); gridplot.
\* args (the extra positional arguments, where the docstring puts harmonics)
\* is not passed on: both sub-plots run with their default harmonics
ST_CampbellResults_plot(self, percentile, conf_interval, args, kwargs) ==
    Outcome(<<"plot">>, NoExc,
            <<ST_CampbellResults_plot_nat_freq_fig(self, percentile, conf_interval),
              ST_CampbellResults_plot_log_dec_fig(self, percentile, conf_interval)>>,
            "grid", SetDefaults(kwargs, CampbellDefaults))

-----------------------------------------------------------------------------
(* class ST_FrequencyResponseResults *)

ST_FrequencyResponseResults_plot_magnitude_plan(self, percentile, conf_interval) ==
    [ii \in 1..Len(percentile) |->
        BokehLine(self.speed_range,
                  Pct(self.magnitude, Level(percentile[ii]), 1),
                  Color("colors1", ii - 1), 6, 25,
                  Label("percentile: {}%", <<percentile[ii]>>))]
    \o Flatten([ii \in 1..Len(conf_interval) |->
        <<BokehLine(self.speed_range,
                    Pct(self.magnitude, ConfUpper(conf_interval[ii]), 1),
                    Color("colors1", ii - 1), 6, 25,
                    Label("confidence interval: {}%", <<conf_interval[ii]>>)),
          BokehLine(self.speed_range,
                    Pct(self.magnitude, ConfLower(conf_interval[ii]), 1),
                    Color("colors1", ii - 1), 6, 25,
                    Label("confidence interval: {}%", <<conf_interval[ii]>>))>>])
    \o <<BokehLine(self.speed_range, Mean(self.magnitude, 1),
                   Color("black", 0), 10, 30, Label("Mean", <<>>))>>

\* the phase plot with the mean drawn only next to a confidence interval
PhasePlanMeanInsideConfBlock(self, percentile, conf_interval) ==
    [ii \in 1..Len(percentile) |->
        BokehLine(self.speed_range,
                  Pct(self.phase, Level(percentile[ii]), 1),
                  Color("colors1", ii - 1), 6, 25,
                  Label("percentile: {}%", <<percentile[ii]>>))]
    \o Flatten([ii \in 1..Len(conf_interval) |->
        <<BokehLine(self.speed_range,
                    Pct(self.phase, ConfUpper(conf_interval[ii]), 1),
                    Color("colors1", ii - 1), 6, 25,
                    Label("confidence interval: {}%", <<conf_interval[ii]>>)),
          BokehLine(self.speed_range,
                    Pct(self.phase, ConfLower(conf_interval[ii]), 1),
                    Color("colors1", ii - 1), 6, 25,
                    Label("confidence interval: {}%", <<conf_interval[ii]>>))>>])
    \o (IF Len(conf_interval) > 0
        THEN <<BokehLine(self.speed_range, Mean(self.phase, 1),
                         Color("black", 0), 10, 30, Label("Mean", <<>>))>>
        ELSE <<>>)

ST_FrequencyResponseResults_plot_phase_plan(self, percentile, conf_interval) ==
    [ii \in 1..Len(percentile) |->
        BokehLine(self.speed_range,
                  Pct(self.phase, Level(percentile[ii]), 1),
                  Color("colors1", ii - 1), 6, 25,
                  Label("percentile: {}%", <<percentile[ii]>>))]
    \o Flatten([ii \in 1..Len(conf_interval) |->
        <<BokehLine(self.speed_range,
                    Pct(self.phase, ConfUpper(conf_interval[ii]), 1),
                    Color("colors1", ii - 1), 6, 25,
                    Label("confidence interval: {}%", <<conf_interval[ii]>>)),
          BokehLine(self.speed_range,
                    Pct(self.phase, ConfLower(conf_interval[ii]), 1),
                    Color("colors1", ii - 1), 6, 25,
                    Label("confidence interval: {}%", <<conf_interval[ii]>>))>>])
    \o <<BokehLine(self.speed_range, Mean(self.phase, 1),
                   Color("black", 0), 10, 30, Label("Mean", <<>>))>>

ST_FrequencyResponseResults_plot_magnitude_fig(self, percentile, conf_interval) ==
    Fig("plot_magnitude", "bokeh", Label("Frequency Response - Magnitude", <<>>),
        ST_FrequencyResponseResults_plot_magnitude_plan(self, percentile, conf_interval))

ST_FrequencyResponseResults_plot_phase_fig(self, percentile, conf_interval) ==
    Fig("plot_phase", "bokeh", Label("Frequency Response - Phase", <<>>),
        ST_FrequencyResponseResults_plot_phase_plan(self, percentile, conf_interval))

ST_FrequencyResponseResults_plot_magnitude(self, percentile, conf_interval, kwargs) ==
    Outcome(<<>>, NoExc,
            <<ST_FrequencyResponseResults_plot_magnitude_fig(self, percentile,
                                                             conf_interval)>>,
            "figure", kwargs)

ST_FrequencyResponseResults_plot_phase(self, percentile, conf_interval, kwargs) ==
    Outcome(<<>>, NoExc,
            <<ST_FrequencyResponseResults_plot_phase_fig(self, percentile,
                                                         conf_interval)>>,
            "figure", kwargs)

ST_FrequencyResponseResults_plot(self, percentile, conf_interval, kwargs) ==
    Outcome(<<"plot">>, NoExc,
            <<ST_FrequencyResponseResults_plot_magnitude_fig(self, percentile,
                                                             conf_interval),
              ST_FrequencyResponseResults_plot_phase_fig(self, percentile,
                                                         conf_interval)>>,
            "grid", kwargs)

-----------------------------------------------------------------------------
(* class ST_ForcedResponseResults *)

ST_ForcedResponseResults_plot_magnitude_plan(self, dof, percentile, conf_interval) ==
    [ii \in 1..Len(percentile) |->
        BokehLine(self.frequency_range,
                  Pct(LastAxis(self.magnitude, dof), Level(percentile[ii]), 0),
                  Color("colors1", ii - 1), 6, 25,
                  Label("percentile: {}%", <<percentile[ii]>>))]
    \o Flatten([ii \in 1..Len(conf_interval) |->
        <<BokehLine(self.frequency_range,
                    Pct(LastAxis(self.magnitude, dof), ConfUpper(conf_interval[ii]), 0),
                    Color("colors1", ii - 1), 6, 25,
                    Label("confidence interval: {}%", <<conf_interval[ii]>>)),
          BokehLine(self.frequency_range,
                    Pct(LastAxis(self.magnitude, dof), ConfLower(conf_interval[ii]), 0),
                    Color("colors1", ii - 1), 6, 25,
                    Label("confidence interval: {}%", <<conf_interval[ii]>>))>>])
    \o <<BokehLine(self.frequency_range, Mean(LastAxis(self.magnitude, dof), 0),
                   Color("black", 0), 10, 30, Label("Mean", <<>>))>>

ST_ForcedResponseResults_plot_phase_plan(self, dof, percentile, conf_interval) ==
    [ii \in 1..Len(percentile) |->
        BokehLine(self.frequency_range,
                  Pct(LastAxis(self.phase, dof), Level(percentile[ii]), 0),
                  Color("colors1", ii - 1), 6, 25,
                  Label("percentile: {}%", <<percentile[ii]>>))]
    \o Flatten([ii \in 1..Len(conf_interval) |->
        <<BokehLine(self.frequency_range,
                    Pct(LastAxis(self.phase, dof), ConfUpper(conf_interval[ii]), 0),
                    Color("colors1", ii - 1), 6, 25,
                    Label("confidence interval: {}%", <<conf_interval[ii]>>)),
          BokehLine(self.frequency_range,
                    Pct(LastAxis(self.phase, dof), ConfLower(conf_interval[ii]), 0),
                    Color("colors1", ii - 1), 6, 25,
                    Label("confidence interval: {}%", <<conf_interval[ii]>>))>>])
    \o <<BokehLine(self.frequency_range, Mean(LastAxis(self.phase, dof), 0),
                   Color("black", 0), 10, 30, Label("Mean", <<>>))>>

ST_ForcedResponseResults_plot_magnitude_fig(self, dof, percentile, conf_interval) ==
    Fig("plot_magnitude", "bokeh", Label("Unbalance Response - Magnitude", <<>>),
        ST_ForcedResponseResults_plot_magnitude_plan(self, dof, percentile,
                                                     conf_interval))

ST_ForcedResponseResults_plot_phase_fig(self, dof, percentile, conf_interval) ==
    Fig("plot_phase", "bokeh", Label("Unbalance Response - Phase", <<>>),
        ST_ForcedResponseResults_plot_phase_plan(self, dof, percentile, conf_interval))

ST_ForcedResponseResults_plot_magnitude(self, dof, percentile, conf_interval, kwargs) ==
    Outcome(<<>>, NoExc,
            <<ST_ForcedResponseResults_plot_magnitude_fig(self, dof, percentile,
                                                          conf_interval)>>,
            "figure", kwargs)

ST_ForcedResponseResults_plot_phase(self, dof, percentile, conf_interval, kwargs) ==
    Outcome(<<>>, NoExc,
            <<ST_ForcedResponseResults_plot_phase_fig(self, dof, percentile,
                                                      conf_interval)>>,
            "figure", kwargs)

ST_ForcedResponseResults_plot(self, dof, percentile, conf_interval, kwargs) ==
    Outcome(<<"plot">>, NoExc,
            <<ST_ForcedResponseResults_plot_magnitude_fig(self, dof, percentile,
                                                          conf_interval),
              ST_ForcedResponseResults_plot_phase_fig(self, dof, percentile,
                                                      conf_interval)>>,
            "grid", kwargs)

-----------------------------------------------------------------------------
(* class ST_TimeResponseResults *)

\* dof % 4 with dof = None raises TypeError before the figure is created
ST_TimeResponseResults_plot_time_response_plan(self, dof, percentile, conf_interval) ==
    [ii \in 1..Len(percentile) |->
        BokehLine(self.time_range,
                  Pct(LastAxis(self.yout, dof), Level(percentile[ii]), 0),
                  Color("colors1", ii - 1), 6, 25,
                  Label("percentile: {}%", <<percentile[ii]>>))]
    \o Flatten([ii \in 1..Len(conf_interval) |->
        <<BokehLine(self.time_range,
                    Pct(LastAxis(self.yout, dof), ConfUpper(conf_interval[ii]), 0),
                    Color("colors1", ii - 1), 6, 25,
                    Label("confidence interval: {}%", <<conf_interval[ii]>>)),
          BokehLine(self.time_range,
                    Pct(LastAxis(self.yout, dof), ConfLower(conf_interval[ii]), 0),
                    Color("colors1", ii - 1), 6, 25,
                    Label("confidence interval: {}%", <<conf_interval[ii]>>))>>])
    \o <<BokehLine(self.time_range, Mean(LastAxis(self.yout, dof), 0),
                   Color("black", 0), 10, 30, Label("Mean", <<>>))>>

ST_TimeResponseResults_plot_time_response(head, self, dof, percentile, conf_interval, kwargs) ==
    IF dof = None
    THEN Outcome(head \o <<"_plot_time_response">>, "TypeError", <<>>, "none", kwargs)
    ELSE Outcome(head, NoExc,
                 <<Fig("_plot_time_response", "bokeh",
                       Label("Response for node {} and degree of freedom {}",
                             <<dof \div 4, dof % 4>>),
                       ST_TimeResponseResults_plot_time_response_plan(
                           self, dof, percentile, conf_interval))>>,
                 "figure", kwargs)

ST_TimeResponseResults_plot_orbit_2d_plan(self, node, percentile, conf_interval) ==
    [ii \in 1..Len(percentile) |->
        BokehCurve(Pct(LastAxis(self.yout, 4 * node), ConfUpper(percentile[ii]), 0),
                   Pct(LastAxis(self.yout, 4 * node + 1), ConfUpper(percentile[ii]), 0),
                   Color("colors2", ii - 1), 6, 25,
                   Label("percentile: {}%", <<percentile[ii]>>))]
    \o Flatten([ii \in 1..Len(conf_interval) |->
        <<BokehCurve(Pct(LastAxis(self.yout, 4 * node),
                         ConfUpper(conf_interval[ii]), 0),
                     Pct(LastAxis(self.yout, 4 * node + 1),
                         ConfUpper(conf_interval[ii]), 0),
                     Color("colors1", ii - 1), 6, 25,
                     Label("confidence interval: {}%", <<conf_interval[ii]>>)),
          BokehCurve(Pct(LastAxis(self.yout, 4 * node),
                         ConfLower(conf_interval[ii]), 0),
                     Pct(LastAxis(self.yout, 4 * node + 1),
                         ConfLower(conf_interval[ii]), 0),
                     Color("colors1", ii - 1), 6, 25,
                     Label("confidence interval: {}%", <<conf_interval[ii]>>))>>])
    \o <<BokehCurve(Mean(LastAxis(self.yout, 4 * node), 0),
                    Mean(LastAxis(self.yout, 4 * node + 1), 0),
                    Color("black", 0), 10, 30, Label("Mean", <<>>))>>

ST_TimeResponseResults_plot_orbit_2d(head, self, node, percentile, conf_interval, kwargs) ==
    Outcome(head, NoExc,
            <<Fig("_plot_orbit_2d", "bokeh", Label("Rotor Orbit: node {}", <<node>>),
                  ST_TimeResponseResults_plot_orbit_2d_plan(self, node, percentile,
                                                            conf_interval))>>,
            "figure", kwargs)

\* the loop variable p is a local of _plot_orbit_3d: it is bound once either
\* loop has run an iteration
PIsBound(percentile, conf_interval) == Len(percentile) > 0 \/ Len(conf_interval) > 0

ST_TimeResponseResults_plot_orbit_3d_plan(self, percentile, conf_interval) ==
    LET nl    == self.nodes_list
        zeros == [k \in 1..Len(self.nodes_pos) |-> 0]
    IN
    <<MplLine(Stored(zeros), Stored(zeros), self.nodes_pos,
              Color("k-.", 0), 15, NoLabel, NoExc)>>
    \o Flatten([ii \in 1..Len(percentile) |->
         [nn \in 1..Len(nl) |->
            MplLine(Pct(LastAxis(self.yout, 4 * nl[nn]), Level(percentile[ii]), 0),
                    Pct(LastAxis(self.yout, 4 * nl[nn] + 1), Level(percentile[ii]), 0),
                    <<self.nodes_pos[nl[nn] + 1]>>,
                    Color("tab20c", ii - 1), Unset,
                    Label("percentile: {}%", <<percentile[ii]>>), NoExc)]])
    \o Flatten([ii \in 1..Len(conf_interval) |->
         Flatten([nn \in 1..Len(nl) |->
            <<MplLine(Pct(LastAxis(self.yout, 4 * nl[nn]),
                          ConfUpper(conf_interval[ii]), 0),
                      Pct(LastAxis(self.yout, 4 * nl[nn] + 1),
                          ConfUpper(conf_interval[ii]), 0),
                      <<self.nodes_pos[nl[nn] + 1]>>,
                      Color("tab10", ii - 1), Unset,
                      Label("confidence interval: {}%", <<conf_interval[ii]>>), NoExc),
              MplLine(Pct(LastAxis(self.yout, 4 * nl[nn]),
                          ConfLower(conf_interval[ii]), 0),
                      Pct(LastAxis(self.yout, 4 * nl[nn] + 1),
                          ConfLower(conf_interval[ii]), 0),
                      <<self.nodes_pos[nl[nn] + 1]>>,
                      Color("tab10", ii - 1), Unset,
                      Label("confidence interval: {}%", <<conf_interval[ii]>>),
                      NoExc)>>])])
    \o [nn \in 1..Len(nl) |->
          MplLine(Mean(LastAxis(self.yout, 4 * nl[nn]), 0),
                  Mean(LastAxis(self.yout, 4 * nl[nn] + 1), 0),
                  <<self.nodes_pos[nl[nn] + 1]>>,
                  Color("k", 0), Unset, Label("Mean", <<>>),
                  IF PIsBound(percentile, conf_interval)
                  THEN NoExc ELSE "UnboundLocalError")]

ST_TimeResponseResults_plot_orbit_3d(head, self, percentile, conf_interval, kwargs) ==
    Outcome(head, NoExc,
            <<Fig("_plot_orbit_3d", "matplotlib", Label("Rotor Orbits", <<>>),
                  ST_TimeResponseResults_plot_orbit_3d_plan(self, percentile,
                                                            conf_interval))>>,
            "axes", kwargs)

InSeq(x, s) == \E i \in 1..Len(s) : s[i] = x

\* plot with every plot_type other than "1d" and "2d" taken as "3d"
PlotElseIsOrbit3d(self, plot_type, node, dof, percentile, conf_interval, kwargs) ==
    IF plot_type = "1d"
    THEN ST_TimeResponseResults_plot_time_response(<<"plot">>, self, dof, percentile,
                                                   conf_interval, kwargs)
    ELSE IF plot_type = "2d"
    THEN IF ~InSeq(node, self.nodes_list)
         THEN Outcome(<<"plot">>, "ValueError", <<>>, "none", kwargs)
         ELSE ST_TimeResponseResults_plot_orbit_2d(<<"plot">>, self, node, percentile,
                                                   conf_interval, kwargs)
    ELSE ST_TimeResponseResults_plot_orbit_3d(<<"plot">>, self, percentile,
                                              conf_interval, kwargs)

\* plot returning None for a node that is not in nodes_list
PlotSilentOnBadNode(self, plot_type, node, dof, percentile, conf_interval, kwargs) ==
    IF plot_type = "1d"
    THEN ST_TimeResponseResults_plot_time_response(<<"plot">>, self, dof, percentile,
                                                   conf_interval, kwargs)
    ELSE IF plot_type = "2d"
    THEN IF ~InSeq(node, self.nodes_list)
         THEN Outcome(<<"plot">>, NoExc, <<>>, "none", kwargs)
         ELSE ST_TimeResponseResults_plot_orbit_2d(<<"plot">>, self, node, percentile,
                                                   conf_interval, kwargs)
    ELSE IF plot_type = "3d"
    THEN ST_TimeResponseResults_plot_orbit_3d(<<"plot">>, self, percentile,
                                              conf_interval, kwargs)
    ELSE Outcome(<<"plot">>, "ValueError", <<>>, "none", kwargs)

ST_TimeResponseResults_plot(self, plot_type, node, dof, percentile, conf_interval, kwargs) ==
    IF plot_type = "1d"
    THEN ST_TimeResponseResults_plot_time_response(<<"plot">>, self, dof, percentile,
                                                   conf_interval, kwargs)
    ELSE IF plot_type = "2d"
    THEN IF ~InSeq(node, self.nodes_list)
         THEN Outcome(<<"plot">>, "ValueError", <<>>, "none", kwargs)
         ELSE ST_TimeResponseResults_plot_orbit_2d(<<"plot">>, self, node, percentile,
                                                   conf_interval, kwargs)
    ELSE IF plot_type = "3d"
    THEN ST_TimeResponseResults_plot_orbit_3d(<<"plot">>, self, percentile,
                                              conf_interval, kwargs)
    ELSE Outcome(<<"plot">>, "ValueError", <<>>, "none", kwargs)

\* def plot(self, plot_type="1d", node=None, dof=None, ...)
PlotTypeDefault == "1d"

PlotTypeOf(passed) == IF passed = NotPassed THEN PlotTypeDefault ELSE passed

-----------------------------------------------------------------------------
(* The results objects of a run: what the upstream analysis hands to __init__ *)

\* one ensemble per seed: the samples at the first point are the seed, the
\* samples at the other points are derived from it
SeedVals == {0, 1}

Seeds == [1..NSamp -> SeedVals]

\* simulated values lie in 0..ValTop
ValTop == Cardinality(SeedVals)

Row(v, k) == [s \in 1..NSamp |-> (v[s] * k + s * (k - 1)) % (ValTop + 1)]

XRange == [k \in 1..NPts |-> 10 * k]

NDof == 4 * NNodes

\* shape (modes, speeds, samples)
WdOf(v) == [j \in 1..NModes |-> [k \in 1..NPts |->
              [s \in 1..NSamp |-> Row(v, k)[s] + (ValTop + 1) * (j - 1)]]]

LogDecOf(v) == [j \in 1..NModes |-> [k \in 1..NPts |->
                  [s \in 1..NSamp |-> ValTop - Row(v, k)[s] + (j - 1)]]]

\* shape (frequencies, samples)
MagOf(v) == [k \in 1..NPts |-> Row(v, k)]

PhaseOf(v) == [k \in 1..NPts |-> [s \in 1..NSamp |-> ValTop - Row(v, k)[s]]]

\* shape (samples, points, dofs)
YoutOf(v) == [s \in 1..NSamp |-> [t \in 1..NPts |->
                [d \in 1..NDof |-> (Row(v, t)[s] + d * s) % (ValTop + 1)]]]

Phase3Of(v) == [s \in 1..NSamp |-> [t \in 1..NPts |->
                  [d \in 1..NDof |-> (Row(v, t)[s] + d + s) % (ValTop + 1)]]]

NodesPos == [n \in 1..NNodes |-> 10 * (n - 1)]

AllNodes == [n \in 1..NNodes |-> n - 1]

\* __init__(self, speed_range, wd, log_dec)
ST_CampbellResults_init(v) ==
    [cls |-> "ST_CampbellResults", speed_range |-> XRange,
     wd |-> WdOf(v), log_dec |-> LogDecOf(v)]

\* __init__(self, speed_range, magnitude, phase)
ST_FrequencyResponseResults_init(v) ==
    [cls |-> "ST_FrequencyResponseResults", speed_range |-> XRange,
     magnitude |-> MagOf(v), phase |-> PhaseOf(v)]

\* __init__(self, time_range, yout, xout, nodes_list=[], nodes_pos=[])
ST_TimeResponseResults_init(v, nodes_list, nodes_pos) ==
    [cls |-> "ST_TimeResponseResults", time_range |-> XRange,
     yout |-> YoutOf(v), xout |-> YoutOf(v),
     nodes_list |-> nodes_list, nodes_pos |-> nodes_pos]

\* __init__(self, forced_resp, magnitude, phase, frequency_range)
ST_ForcedResponseResults_init(v) ==
    [cls |-> "ST_ForcedResponseResults", forced_resp |-> YoutOf(v),
     magnitude |-> YoutOf(v), phase |-> Phase3Of(v), frequency_range |-> XRange]

\* nodes_list and nodes_pos left at their defaults, one node, every node
NodeSetups == {<<<<>>, <<>>>>, <<<<0>>, NodesPos>>, <<AllNodes, NodesPos>>}

-----------------------------------------------------------------------------
(* Arguments of the calls *)

\* the list objects a call can reach: the two lists of the caller, and the
\* lists created once by the defaults percentile=[] and conf_interval=[] of
\* the signatures, which every call that omits the argument shares
ListObjects == {"percentile", "conf_interval", "percentile=[]", "conf_interval=[]"}

DefaultOf(name) ==
    CASE name = "percentile" -> "percentile=[]"
      [] name = "conf_interval" -> "conf_interval=[]"

\* the object the parameter `name` is bound to in the call c: the caller's
\* list, or the default of the signature when the caller omits the argument
\* (an empty list in c stands for an omitted argument)
Param(c, name) == IF c[name] = <<>> THEN DefaultOf(name) ELSE name

\* the list objects when the call c is made: the caller's lists hold what the
\* caller wrote
Bind(c, heap) ==
    [heap EXCEPT !["percentile"] = c.percentile, !["conf_interval"] = c.conf_interval]

\* the value a method receives for the list the caller wrote as v
Arg(v, name) == IF v = <<>> THEN mem[DefaultOf(name)] ELSE v

\* the array is sorted where it is, as list.sort() or ndarray.sort() do
SortInPlace(heap, ref, new) ==
    (new :> np_sort(heap[ref])) @@ [heap EXCEPT ![ref] = np_sort(heap[ref])]

\* new = np.sort(ref): np.sort returns a sorted copy, a new array; the object
\* passed in is not written
np_sort_call(heap, ref, new) == (new :> np_sort(heap[ref])) @@ heap

\* the objects after one method has run with its percentile and conf_interval
\* parameters bound as in frame. plot_log_dec rebinds both names to sorted
\* copies; no other method, and no other statement of plot_log_dec, assigns
\* to the lists, appends to them or sorts them
MethodEffect(method, frame, heap) ==
    IF method = "plot_log_dec"
    THEN LET h1 == np_sort_call(heap, frame.percentile, "np.sort(percentile)")
         IN  np_sort_call(h1, frame.conf_interval, "np.sort(conf_interval)")
    ELSE heap

RECURSIVE RunEffects(_, _, _)
RunEffects(methods, frame, heap) ==
    IF methods = <<>> THEN heap
    ELSE RunEffects(Tail(methods), frame, MethodEffect(Head(methods), frame, heap))

\* the list objects after the methods entered by the call c have run: plot
\* hands its own percentile and conf_interval objects on to the methods it
\* calls
HeapAfter(methods, c, heap) ==
    LET frame == [percentile |-> Param(c, "percentile"),
                  conf_interval |-> Param(c, "conf_interval")]
        h == RunEffects(methods, frame, heap)
    IN  [o \in ListObjects |-> h[o]]

PercentileArgs == {<<>>, <<30>>, <<100, 0>>}

ConfArgs ==
    {<<>>, <<0>>, <<25>>, <<100>>, <<100, 40>>, <<0, 100>>, <<-40>>, <<120>>, <<-120>>}

KwargsArgs == {{}, {<<"line_width", 50>>}, {<<"line_alpha", 3>>}}

\* keyword arguments tried on ST_TimeResponseResults.plot
TimeKwargsArgs == {{}, {<<"line_width", 50>>}}

\* harmonics=[1] of the Campbell signatures
HarmonicsDefault == <<1>>

\* harmonics lists tried on the Campbell plots: the default and 1x with 2x
HarmonicsArgs == {HarmonicsDefault, <<1, 2>>}

PlotTypeArgs == {NotPassed, "1d", "2d", "3d", "4d"}

NodeArgs == {None, 0, NNodes - 1}

DofArgs == {None, 1, NDof - 4}

Call(method, plot_type, node, dof, percentile, conf_interval, harmonics, kwargs) ==
    [method |-> method, plot_type |-> plot_type, node |-> node, dof |-> dof,
     percentile |-> percentile, conf_interval |-> conf_interval,
     harmonics |-> harmonics, kwargs |-> kwargs]

NoCall == Call("", NotPassed, None, None, <<>>, <<>>, <<>>, {})

NoRet == [shape |-> "none", figs |-> <<>>]

-----------------------------------------------------------------------------
(* Actions *)

Init ==
    /\ obj \in {ST_CampbellResults_init(v) : v \in Seeds}
               \cup {ST_FrequencyResponseResults_init(v) : v \in Seeds}
               \cup {ST_TimeResponseResults_init(v, ns[1], ns[2]) :
                        v \in Seeds, ns \in NodeSetups}
               \cup {ST_ForcedResponseResults_init(v) : v \in Seeds}
    /\ pc = "idle"
    /\ call = NoCall
    /\ ret = NoRet
    /\ exc = NoExc
    /\ entered = <<>>
    /\ requested = <<>>
    /\ created = 0
    /\ kw = {}
    /\ mem = [o \in ListObjects |-> <<>>]
    /\ runs = 0

\* a call returns or raises: its outcome becomes the state, and the list
\* objects are left as the methods that ran leave them; no statement of the
\* plotting methods assigns to an attribute or an element of self
Return(c, out, heap) ==
    /\ pc' = "returned"
    /\ call' = c
    /\ ret' = out.ret
    /\ exc' = out.exc
    /\ entered' = out.entered
    /\ requested' = out.requested
    /\ created' = out.created
    /\ kw' = out.kw
    /\ mem' = HeapAfter(out.entered, c, heap)
    /\ runs' = runs + 1
    /\ UNCHANGED obj

\* the caller makes the call c with its lists as written in c
Finish(c, out) == Return(c, out, Bind(c, mem))

CampbellPlotNatFreq ==
    /\ pc = "idle" /\ obj.cls = "ST_CampbellResults"
    /\ \E pa \in PercentileArgs, ca \in ConfArgs, ha \in HarmonicsArgs,
          ka \in KwargsArgs :
         Finish(Call("plot_nat_freq", NotPassed, None, None, pa, ca, ha, ka),
                ST_CampbellResults_plot_nat_freq(obj, Arg(pa, "percentile"), Arg(ca, "conf_interval"), ha, ka))

CampbellPlotLogDec ==
    /\ pc = "idle" /\ obj.cls = "ST_CampbellResults"
    /\ \E pa \in PercentileArgs, ca \in ConfArgs, ha \in HarmonicsArgs,
          ka \in KwargsArgs :
         Finish(Call("plot_log_dec", NotPassed, None, None, pa, ca, ha, ka),
                ST_CampbellResults_plot_log_dec(obj, Arg(pa, "percentile"), Arg(ca, "conf_interval"), ha, ka))

CampbellPlot ==
    /\ pc = "idle" /\ obj.cls = "ST_CampbellResults"
    /\ \E pa \in PercentileArgs, ca \in ConfArgs, ha \in HarmonicsArgs,
          ka \in KwargsArgs :
         Finish(Call("plot", NotPassed, None, None, pa, ca, ha, ka),
                ST_CampbellResults_plot(obj, Arg(pa, "percentile"), Arg(ca, "conf_interval"), <<ha>>, ka))

FrequencyResponsePlotMagnitude ==
    /\ pc = "idle" /\ obj.cls = "ST_FrequencyResponseResults"
    /\ \E pa \in PercentileArgs, ca \in ConfArgs, ka \in KwargsArgs :
         Finish(Call("plot_magnitude", NotPassed, None, None, pa, ca, <<>>, ka),
                ST_FrequencyResponseResults_plot_magnitude(obj, Arg(pa, "percentile"), Arg(ca, "conf_interval"), ka))

FrequencyResponsePlotPhase ==
    /\ pc = "idle" /\ obj.cls = "ST_FrequencyResponseResults"
    /\ \E pa \in PercentileArgs, ca \in ConfArgs, ka \in KwargsArgs :
         Finish(Call("plot_phase", NotPassed, None, None, pa, ca, <<>>, ka),
                ST_FrequencyResponseResults_plot_phase(obj, Arg(pa, "percentile"), Arg(ca, "conf_interval"), ka))

FrequencyResponsePlot ==
    /\ pc = "idle" /\ obj.cls = "ST_FrequencyResponseResults"
    /\ \E pa \in PercentileArgs, ca \in ConfArgs, ka \in KwargsArgs :
         Finish(Call("plot", NotPassed, None, None, pa, ca, <<>>, ka),
                ST_FrequencyResponseResults_plot(obj, Arg(pa, "percentile"), Arg(ca, "conf_interval"), ka))

TimeResponsePlot ==
    /\ pc = "idle" /\ obj.cls = "ST_TimeResponseResults"
    /\ \E pt \in PlotTypeArgs, node \in NodeArgs, dof \in DofArgs,
          pa \in PercentileArgs, ca \in ConfArgs, ka \in TimeKwargsArgs :
         Finish(Call("plot", pt, node, dof, pa, ca, <<>>, ka),
                ST_TimeResponseResults_plot(obj, PlotTypeOf(pt), node, dof, Arg(pa, "percentile"), Arg(ca, "conf_interval"), ka))

ForcedResponsePlotMagnitude ==
    /\ pc = "idle" /\ obj.cls = "ST_ForcedResponseResults"
    /\ \E dof \in DofArgs \ {None}, pa \in PercentileArgs, ca \in ConfArgs,
          ka \in KwargsArgs :
         Finish(Call("plot_magnitude", NotPassed, None, dof, pa, ca, <<>>, ka),
                ST_ForcedResponseResults_plot_magnitude(obj, dof, Arg(pa, "percentile"), Arg(ca, "conf_interval"), ka))

ForcedResponsePlotPhase ==
    /\ pc = "idle" /\ obj.cls = "ST_ForcedResponseResults"
    /\ \E dof \in DofArgs \ {None}, pa \in PercentileArgs, ca \in ConfArgs,
          ka \in KwargsArgs :
         Finish(Call("plot_phase", NotPassed, None, dof, pa, ca, <<>>, ka),
                ST_ForcedResponseResults_plot_phase(obj, dof, Arg(pa, "percentile"), Arg(ca, "conf_interval"), ka))

ForcedResponsePlot ==
    /\ pc = "idle" /\ obj.cls = "ST_ForcedResponseResults"
    /\ \E dof \in DofArgs \ {None}, pa \in PercentileArgs, ca \in ConfArgs,
          ka \in KwargsArgs :
         Finish(Call("plot", NotPassed, None, dof, pa, ca, <<>>, ka),
                ST_ForcedResponseResults_plot(obj, dof, Arg(pa, "percentile"), Arg(ca, "conf_interval"), ka))

\* the caller is done with the figure (or has handled the exception)
Discard ==
    /\ pc = "returned"
    /\ pc' = "idle"
    /\ call' = NoCall
    /\ ret' = NoRet
    /\ exc' = NoExc
    /\ entered' = <<>>
    /\ requested' = <<>>
    /\ created' = 0
    /\ kw' = {}
    /\ mem' = [mem EXCEPT !["percentile"] = <<>>, !["conf_interval"] = <<>>]
    /\ runs' = 0
    /\ UNCHANGED obj

Next ==
    \/ CampbellPlotNatFreq
    \/ CampbellPlotLogDec
    \/ CampbellPlot
    \/ FrequencyResponsePlotMagnitude
    \/ FrequencyResponsePlotPhase
    \/ FrequencyResponsePlot
    \/ TimeResponsePlot
    \/ ForcedResponsePlotMagnitude
    \/ ForcedResponsePlotPhase
    \/ ForcedResponsePlot
    \/ Discard

Spec == Init /\ [][Next]_vars

\* the call c made on self with the given list arguments
Invoke(self, c, percentile, conf_interval) ==
    LET m == c.method
        k == c.kwargs
    IN
    CASE self.cls = "ST_CampbellResults" /\ m = "plot_nat_freq" ->
            ST_CampbellResults_plot_nat_freq(self, percentile, conf_interval, c.harmonics, k)
      [] self.cls = "ST_CampbellResults" /\ m = "plot_log_dec" ->
            ST_CampbellResults_plot_log_dec(self, percentile, conf_interval, c.harmonics, k)
      [] self.cls = "ST_CampbellResults" /\ m = "plot" ->
            ST_CampbellResults_plot(self, percentile, conf_interval, <<c.harmonics>>, k)
      [] self.cls = "ST_FrequencyResponseResults" /\ m = "plot_magnitude" ->
            ST_FrequencyResponseResults_plot_magnitude(self, percentile, conf_interval, k)
      [] self.cls = "ST_FrequencyResponseResults" /\ m = "plot_phase" ->
            ST_FrequencyResponseResults_plot_phase(self, percentile, conf_interval, k)
      [] self.cls = "ST_FrequencyResponseResults" /\ m = "plot" ->
            ST_FrequencyResponseResults_plot(self, percentile, conf_interval, k)
      [] self.cls = "ST_TimeResponseResults" /\ m = "plot" ->
            ST_TimeResponseResults_plot(self, PlotTypeOf(c.plot_type), c.node, c.dof,
                                        percentile, conf_interval, k)
      [] self.cls = "ST_ForcedResponseResults" /\ m = "plot_magnitude" ->
            ST_ForcedResponseResults_plot_magnitude(self, c.dof, percentile, conf_interval, k)
      [] self.cls = "ST_ForcedResponseResults" /\ m = "plot_phase" ->
            ST_ForcedResponseResults_plot_phase(self, c.dof, percentile, conf_interval, k)
      [] self.cls = "ST_ForcedResponseResults" /\ m = "plot" ->
            ST_ForcedResponseResults_plot(self, c.dof, percentile, conf_interval, k)

\* the caller makes the same call once more, on the same results object and
\* with the same list objects, as they are now
Repeat ==
    /\ pc = "returned" /\ runs = 1
    /\ Return(call,
              Invoke(obj, call, mem[Param(call, "percentile")],
                     mem[Param(call, "conf_interval")]),
              mem)

NextRepeat == Next \/ Repeat

SpecRepeat == Init /\ [][NextRepeat]_vars

-----------------------------------------------------------------------------
(* Vocabulary of the properties *)

Returned == pc = "returned"

\* the call returned its figure(s) rather than raising
ReturnedOk == Returned /\ exc = NoExc

FigIdx == 1..Len(ret.figs)

\* the method that built the i-th returned figure
FigMethod(i) == entered[Len(entered) - Len(ret.figs) + i]

\* one data set a figure summarises: the ensemble array behind y, the one
\* behind x (orbits) or the stored x array, the ensemble axis, and the suffix
\* (mode number) its legend labels carry
DataSet(xs, xa, ya, axis, tag) ==
    [stored |-> (xa = <<>>), xs |-> xs, xa |-> xa, ya |-> ya, axis |-> axis,
     tag |-> tag]

\* the data sets of the i-th returned figure, read off the results object
DataSets(i) ==
    LET m == FigMethod(i) IN
    CASE obj.cls = "ST_CampbellResults" /\ m = "plot_nat_freq" ->
            [jj \in 1..NModes |->
               DataSet(obj.speed_range, <<>>, obj.wd[jj], 1, <<jj>>)]
      [] obj.cls = "ST_CampbellResults" /\ m = "plot_log_dec" ->
            [jj \in 1..NModes |->
               DataSet(obj.speed_range, <<>>, obj.log_dec[jj], 1, <<jj>>)]
      [] obj.cls = "ST_FrequencyResponseResults" /\ m = "plot_magnitude" ->
            <<DataSet(obj.speed_range, <<>>, obj.magnitude, 1, <<>>)>>
      [] obj.cls = "ST_FrequencyResponseResults" /\ m = "plot_phase" ->
            <<DataSet(obj.speed_range, <<>>, obj.phase, 1, <<>>)>>
      [] obj.cls = "ST_ForcedResponseResults" /\ m = "plot_magnitude" ->
            <<DataSet(obj.frequency_range, <<>>,
                      LastAxis(obj.magnitude, call.dof), 0, <<>>)>>
      [] obj.cls = "ST_ForcedResponseResults" /\ m = "plot_phase" ->
            <<DataSet(obj.frequency_range, <<>>,
                      LastAxis(obj.phase, call.dof), 0, <<>>)>>
      [] obj.cls = "ST_TimeResponseResults" /\ m = "_plot_time_response" ->
            <<DataSet(obj.time_range, <<>>, LastAxis(obj.yout, call.dof), 0, <<>>)>>
      [] obj.cls = "ST_TimeResponseResults" /\ m = "_plot_orbit_2d" ->
            <<DataSet(<<>>, LastAxis(obj.yout, 4 * call.node),
                      LastAxis(obj.yout, 4 * call.node + 1), 0, <<>>)>>
      [] obj.cls = "ST_TimeResponseResults" /\ m = "_plot_orbit_3d" ->
            [nn \in 1..Len(obj.nodes_list) |->
               DataSet(<<>>, LastAxis(obj.yout, 4 * obj.nodes_list[nn]),
                       LastAxis(obj.yout, 4 * obj.nodes_list[nn] + 1), 0, <<>>)]

\* line l is the curve of data set g at level q (half-percent units)
IsPercentileCurve(l, g, q) ==
    /\ l.y = np_percentile(g.ya, q, g.axis) /\ l.ydiv = 200
    /\ IF g.stored THEN l.x = g.xs /\ l.xdiv = 1
       ELSE l.x = np_percentile(g.xa, q, g.axis) /\ l.xdiv = 200

\* line l is the mean curve of data set g: the sums over the ensemble axis,
\* divided by the ensemble size
IsMeanCurve(l, g) ==
    /\ l.y = np_mean(g.ya, g.axis) /\ l.ydiv = NSamp
    /\ IF g.stored THEN l.x = g.xs /\ l.xdiv = 1
       ELSE l.x = np_mean(g.xa, g.axis) /\ l.xdiv = NSamp

ConfFormats == {"confidence interval: {}%", "confidence interval: {}% - Mode {}"}

PercentileFormats == {"percentile: {}%", "percentile {}"}

\* the legend label of confidence value p (of the data set tagged tag)
IsConfLabel(lab, p, tag) == lab.fmt \in ConfFormats /\ lab.args = <<p>> \o tag

IsConfLabelOf(lab, p) ==
    lab.fmt \in ConfFormats /\ Len(lab.args) > 0 /\ lab.args[1] = p

IsPercentileLabel(lab, p) == lab.fmt \in PercentileFormats /\ lab.args = <<p>>

Occurrences(s, x) == Cardinality({i \in 1..Len(s) : s[i] = x})

InDocumentedRange(s) == \A i \in 1..Len(s) : 0 <= s[i] /\ s[i] <= 100

-----------------------------------------------------------------------------
(* C1 *)

\* C1: in every figure a plotting method returns, each value p of
\* conf_interval has, for every data set of the figure (mode, node, or the
\* single one), two curves over that data set, one at level 50 + p/2 and one
\* at level 50 - p/2 along the ensemble axis, both with the legend label of
\* p; and the figure holds no other line with that label (two per data set
\* and per occurrence of p).
C1_ConfidencePairs ==
    ReturnedOk =>
      \A i \in FigIdx :
        LET ls == ret.figs[i].lines
            gs == DataSets(i)
            ci == call.conf_interval
        IN  \A c \in 1..Len(ci) :
              LET p == ci[c] IN
              /\ \A k \in 1..Len(gs) :
                   \E a, b \in 1..Len(ls) :
                     /\ a # b
                     /\ IsConfLabel(ls[a].legend_label, p, gs[k].tag)
                     /\ ls[b].legend_label = ls[a].legend_label
                     /\ IsPercentileCurve(ls[a], gs[k], 100 + p)
                     /\ IsPercentileCurve(ls[b], gs[k], 100 - p)
              /\ Cardinality({a \in 1..Len(ls) :
                                IsConfLabelOf(ls[a].legend_label, p)})
                   = 2 * Len(gs) * Occurrences(ci, p)

\* a 3-D orbit plot of every node with two confidence values has returned
C1_Witness ==
    /\ ReturnedOk
    /\ entered = <<"plot", "_plot_orbit_3d">>
    /\ call.conf_interval = <<100, 40>>
    /\ Len(obj.nodes_list) = NNodes

-----------------------------------------------------------------------------
(* C2 *)

\* C2: in every figure a plotting method returns, each value p of percentile
\* has, for every data set of the figure, a curve that is the p-th
\* percentile of the ensemble at each sample point, labelled with p.
C2_PercentileCurves ==
    ReturnedOk =>
      \A i \in FigIdx :
        LET ls == ret.figs[i].lines
            gs == DataSets(i)
            pa == call.percentile
        IN  \A c \in 1..Len(pa) : \A k \in 1..Len(gs) :
              \E a \in 1..Len(ls) :
                /\ IsPercentileLabel(ls[a].legend_label, pa[c])
                /\ IsPercentileCurve(ls[a], gs[k], 2 * pa[c])

\* the same statement for every plot but the 2-D orbit
C2_PercentileCurvesExceptOrbit2d ==
    ReturnedOk =>
      \A i \in FigIdx :
        FigMethod(i) # "_plot_orbit_2d" =>
          LET ls == ret.figs[i].lines
              gs == DataSets(i)
              pa == call.percentile
          IN  \A c \in 1..Len(pa) : \A k \in 1..Len(gs) :
                \E a \in 1..Len(ls) :
                  /\ IsPercentileLabel(ls[a].legend_label, pa[c])
                  /\ IsPercentileCurve(ls[a], gs[k], 2 * pa[c])

-----------------------------------------------------------------------------
(* C3 *)

\* the np.percentile calls made for confidence value p
ConfRequests(p) ==
    {k \in 1..Len(requested) : IsConfLabelOf(requested[k].label, p)}

\* C3 as stated: every level requested for a confidence value p is 50 + p/2
\* or 50 - p/2; for 0 <= p <= 100 these satisfy
\* 0 <= 50 - p/2 <= 50 <= 50 + p/2 <= 100; for p outside 0..100 at least one
\* of the levels requested for p is outside 0..100.
C3_AsStated ==
    Returned =>
      \A c \in 1..Len(call.conf_interval) :
        LET p == call.conf_interval[c] IN
        /\ \A k \in ConfRequests(p) :
             /\ requested[k].q \in {100 + p, 100 - p}
             /\ (0 <= p /\ p <= 100) =>
                  /\ 0 <= 100 - p /\ 100 - p <= 100
                  /\ 100 <= 100 + p /\ 100 + p <= 200
                  /\ QuantileIsValid(requested[k].q)
        /\ (p < 0 \/ p > 100) /\ ConfRequests(p) # {} =>
             \E k \in ConfRequests(p) : ~QuantileIsValid(requested[k].q)

\* C3 amended: the same for 0 <= p <= 100; at least one level requested for
\* p is outside 0..100 exactly when p > 100 or p < -100, and np.percentile
\* then raises ValueError; for -100 <= p < 0 both levels are inside 0..100,
\* with 50 + p/2 below 50 - p/2.
C3_LevelsInRange ==
    Returned =>
      \A c \in 1..Len(call.conf_interval) :
        LET p == call.conf_interval[c] IN
        /\ \A k \in ConfRequests(p) :
             /\ requested[k].q \in {100 + p, 100 - p}
             /\ (0 <= p /\ p <= 100) =>
                  /\ 0 <= 100 - p /\ 100 - p <= 100
                  /\ 100 <= 100 + p /\ 100 + p <= 200
                  /\ QuantileIsValid(requested[k].q)
             /\ (-100 <= p /\ p < 0) =>
                  /\ QuantileIsValid(requested[k].q)
                  /\ 100 + p < 100 - p
        /\ (p < -100 \/ p > 100) /\ ConfRequests(p) # {} =>
             /\ \E k \in ConfRequests(p) : ~QuantileIsValid(requested[k].q)
             /\ exc = "ValueError"
        /\ (\A d \in 1..Len(call.conf_interval) :
               -100 <= call.conf_interval[d] /\ call.conf_interval[d] <= 100)
           /\ InDocumentedRange(call.percentile) =>
             \A k \in 1..Len(requested) : QuantileIsValid(requested[k].q)

\* a call with the negative confidence value -40 has computed both of its
\* levels, 30 and 70, and returned its figure
C3_Witness ==
    /\ ReturnedOk
    /\ call.conf_interval = <<-40>>
    /\ \E k \in ConfRequests(-40) : requested[k].q = 60
    /\ \E k \in ConfRequests(-40) : requested[k].q = 140

-----------------------------------------------------------------------------
(* C4 *)

\* curve a is nowhere above curve b (both coordinates of an orbit)
PointwiseLeq(a, b) ==
    /\ \A k \in 1..Len(a.y) : a.y[k] * b.ydiv <= b.y[k] * a.ydiv
    /\ a.xdiv = 1 \/ \A k \in 1..Len(a.x) : a.x[k] * b.xdiv <= b.x[k] * a.xdiv

\* lines a and a + 1 of ls are the two curves of one confidence value: they
\* carry the same confidence label and a is the first of its pair
IsConfPair(ls, a) ==
    /\ a + 1 <= Len(ls)
    /\ ls[a].legend_label.fmt \in ConfFormats
    /\ ls[a + 1].legend_label = ls[a].legend_label
    /\ ls[a + 1].z = ls[a].z
    /\ Cardinality({b \in 1..(a - 1) :
           ls[b].legend_label = ls[a].legend_label /\ ls[b].z = ls[a].z}) % 2 = 0

ConfValueOf(l) == l.legend_label.args[1]

\* two confidence lines of one figure summarise the same data set: same mode
\* (label suffix), same node (axial position)
SameDataSet(l1, l2) ==
    l1.z = l2.z /\ Tail(l1.legend_label.args) = Tail(l2.legend_label.args)

\* C4: in every returned figure, for every confidence value p in 0..100 the
\* curve drawn at 50 - p/2 is pointwise <= the curve drawn at 50 + p/2; and
\* for two confidence values p1 <= p2 in 0..100 over the same data set the
\* band of p1 lies pointwise inside the band of p2.
C4_BandsOrderedAndNested ==
    ReturnedOk =>
      \A i \in FigIdx :
        LET ls == ret.figs[i].lines IN
        \A a \in 1..Len(ls) :
          IsConfPair(ls, a) /\ 0 <= ConfValueOf(ls[a]) /\ ConfValueOf(ls[a]) <= 100 =>
            /\ PointwiseLeq(ls[a + 1], ls[a])
            /\ \A b \in 1..Len(ls) :
                 /\ IsConfPair(ls, b)
                 /\ SameDataSet(ls[a], ls[b])
                 /\ 0 <= ConfValueOf(ls[b])
                 /\ ConfValueOf(ls[b]) <= ConfValueOf(ls[a])
                 => /\ PointwiseLeq(ls[b], ls[a])
                    /\ PointwiseLeq(ls[a + 1], ls[b + 1])

\* a figure with the bands of 100 and 40 has returned, and the narrower band
\* is strictly inside the wider one at some point
C4_Witness ==
    /\ ReturnedOk
    /\ call.conf_interval = <<100, 40>>
    /\ \E i \in FigIdx :
         LET ls == ret.figs[i].lines IN
         \E a, b \in 1..Len(ls) :
           /\ IsConfPair(ls, a) /\ IsConfPair(ls, b)
           /\ ConfValueOf(ls[a]) = 100 /\ ConfValueOf(ls[b]) = 40
           /\ SameDataSet(ls[a], ls[b])
           /\ \E k \in 1..Len(ls[a].y) :
                ls[a + 1].y[k] < ls[b + 1].y[k] /\ ls[b].y[k] < ls[a].y[k]

-----------------------------------------------------------------------------
(* C5 *)

MeanLines(ls, lab) == {a \in 1..Len(ls) : ls[a].legend_label = lab}

-----------------------------------------------------------------------------
(* C6, C7, C8 *)

IsTimePlot == Returned /\ obj.cls = "ST_TimeResponseResults" /\ call.method = "plot"

\* the call ended as the helper's outcome out says
ResultIs(out) ==
    /\ entered = out.entered
    /\ ret = out.ret
    /\ exc = out.exc
    /\ created = out.created

NodeIsListed == \E k \in 1..Len(obj.nodes_list) : obj.nodes_list[k] = call.node

\* the call raised ValueError in plot itself: no helper entered, no figure
RaisedInPlot ==
    /\ exc = "ValueError"
    /\ entered = <<"plot">>
    /\ created = 0
    /\ ret = NoRet

TimeResponseOutcome ==
    ST_TimeResponseResults_plot_time_response(
        <<"plot">>, obj, call.dof, call.percentile, call.conf_interval, call.kwargs)

Orbit2dOutcome ==
    ST_TimeResponseResults_plot_orbit_2d(
        <<"plot">>, obj, call.node, call.percentile, call.conf_interval, call.kwargs)

Orbit3dOutcome ==
    ST_TimeResponseResults_plot_orbit_3d(
        <<"plot">>, obj, call.percentile, call.conf_interval, call.kwargs)

\* C6 as stated: plot dispatches on plot_type only: "1d" ends as
\* _plot_time_response for dof does, "2d" as _plot_orbit_2d for node does,
\* "3d" as _plot_orbit_3d does; any other value raises ValueError with no
\* helper called and no figure created.
C6_AsStated ==
    IsTimePlot /\ call.plot_type # NotPassed =>
      CASE call.plot_type = "1d" -> ResultIs(TimeResponseOutcome)
        [] call.plot_type = "2d" ->
             /\ entered = <<"plot", "_plot_orbit_2d">>
             /\ ResultIs(Orbit2dOutcome)
        [] call.plot_type = "3d" -> ResultIs(Orbit3dOutcome)
        [] OTHER -> RaisedInPlot

\* C6 amended: the same, except that "2d" ends as _plot_orbit_2d for node
\* does only when node is in nodes_list, and otherwise raises ValueError with
\* no helper called and no figure created.
C6_Dispatch ==
    IsTimePlot /\ call.plot_type # NotPassed =>
      CASE call.plot_type = "1d" -> ResultIs(TimeResponseOutcome)
        [] call.plot_type = "2d" ->
             IF NodeIsListed
             THEN /\ entered = <<"plot", "_plot_orbit_2d">>
                  /\ ResultIs(Orbit2dOutcome)
             ELSE RaisedInPlot
        [] call.plot_type = "3d" -> ResultIs(Orbit3dOutcome)
        [] OTHER -> RaisedInPlot

\* plot_type "2d" was asked for a node of the rotor that is not in
\* nodes_list, and the call raised ValueError in plot itself
C6_Witness ==
    /\ IsTimePlot
    /\ call.plot_type = "2d"
    /\ call.node = NNodes - 1
    /\ obj.nodes_list = <<0>>
    /\ RaisedInPlot

\* C7: with plot_type "2d", plot raises ValueError whenever node is not in
\* nodes_list (node None, or any node with nodes_list empty, included) and
\* _plot_orbit_2d is not entered; when node is in nodes_list,
\* _plot_orbit_2d is entered, and the figure it returns - it does return one
\* when percentile and conf_interval are in the documented range - is the
\* 2-D orbit figure of that node.
C7_NodeValidation ==
    IsTimePlot /\ PlotTypeOf(call.plot_type) = "2d" =>
      IF NodeIsListed
      THEN /\ entered = <<"plot", "_plot_orbit_2d">>
           /\ created = 1
           /\ exc \in {NoExc, "ValueError"}
           /\ exc = "ValueError" =>
                ~QuantileIsValid(requested[Len(requested)].q)
           /\ InDocumentedRange(call.percentile)
              /\ InDocumentedRange(call.conf_interval) => exc = NoExc
           /\ exc = NoExc =>
                /\ ret.shape = "figure"
                /\ Len(ret.figs) = 1
                /\ ret.figs[1].title = Label("Rotor Orbit: node {}", <<call.node>>)
                /\ \E a \in 1..Len(ret.figs[1].lines) :
                     /\ ret.figs[1].lines[a].legend_label = Label("Mean", <<>>)
                     /\ IsMeanCurve(ret.figs[1].lines[a], DataSets(1)[1])
      ELSE /\ exc = "ValueError"
           /\ ~InSeq("_plot_orbit_2d", entered)
           /\ created = 0
           /\ ret = NoRet

\* plot_type "2d" was asked with node left at None on an object that has
\* nodes, and the call raised ValueError
C7_Witness ==
    /\ IsTimePlot
    /\ call.plot_type = "2d"
    /\ call.node = None
    /\ obj.nodes_list = AllNodes
    /\ exc = "ValueError"
    /\ entered = <<"plot">>

\* C8: when plot_type is not passed, plot produces the 3-D orbit plot.
C8_DefaultIs3d ==
    IsTimePlot /\ call.plot_type = NotPassed =>
      /\ entered = <<"plot", "_plot_orbit_3d">>
      /\ ResultIs(Orbit3dOutcome)

-----------------------------------------------------------------------------
(* C9 *)

\* C9: plot(plot_type="3d") with percentile and conf_interval left empty and
\* a non-empty nodes_list completes without error and returns axes holding
\* the centre line and exactly one mean orbit per node of nodes_list.
C9_Orbit3dWithoutBands ==
    /\ IsTimePlot
    /\ call.plot_type = "3d"
    /\ call.percentile = <<>> /\ call.conf_interval = <<>>
    /\ Len(obj.nodes_list) > 0
    => /\ exc = NoExc
       /\ ret.shape = "axes"
       /\ Len(ret.figs) = 1
       /\ Len(ret.figs[1].lines) = 1 + Len(obj.nodes_list)
       /\ ret.figs[1].lines[1].z = obj.nodes_pos
       /\ \A nn \in 1..Len(obj.nodes_list) :
            Cardinality({a \in 1..Len(ret.figs[1].lines) :
                           /\ ret.figs[1].lines[a].legend_label = Label("Mean", <<>>)
                           /\ IsMeanCurve(ret.figs[1].lines[a], DataSets(1)[nn])
                           /\ ret.figs[1].lines[a].z =
                                <<obj.nodes_pos[obj.nodes_list[nn] + 1]>>}) = 1

-----------------------------------------------------------------------------
(* C10 *)

StyleOf(l, key) ==
    CASE key = "line_width" -> l.line_width
      [] key = "line_alpha" -> l.line_alpha

\* C10: a style keyword the caller passes changes the plot: in the figure(s)
\* returned, some line carries the value passed for line_width or line_alpha
\* (none of the values passed here is a value the methods use by themselves).
C10_KwargsChangeLines ==
    ReturnedOk =>
      \A e \in call.kwargs :
        e[1] \in {"line_width", "line_alpha"} =>
          \E i \in FigIdx : \E a \in 1..Len(ret.figs[i].lines) :
            StyleOf(ret.figs[i].lines[a], e[1]) = e[2]

-----------------------------------------------------------------------------
(* C11 *)

IsCampbellCall == Returned /\ obj.cls = "ST_CampbellResults"

\* what the Campbell call of the current state returns when it is made with
\* the harmonics list h and everything else as it was
CampbellReturnWith(h) ==
    CASE call.method = "plot_nat_freq" ->
            ST_CampbellResults_plot_nat_freq(obj, call.percentile,
                call.conf_interval, h, call.kwargs).ret
      [] call.method = "plot_log_dec" ->
            ST_CampbellResults_plot_log_dec(obj, call.percentile,
                call.conf_interval, h, call.kwargs).ret
      [] call.method = "plot" ->
            ST_CampbellResults_plot(obj, call.percentile,
                call.conf_interval, <<h>>, call.kwargs).ret

\* C11: the Campbell plots draw the harmonics asked for: a call of
\* plot_nat_freq, plot_log_dec or plot made with a harmonics list other than
\* the default returns figure(s) that differ from those of the same call with
\* the default harmonics.
C11_HarmonicsDrawn ==
    IsCampbellCall /\ exc = NoExc /\ call.harmonics # HarmonicsDefault
    => ret.figs # CampbellReturnWith(HarmonicsDefault).figs

-----------------------------------------------------------------------------
(* C12 *)

\* the ensemble of values the array a holds for point k: row k when the
\* ensemble axis is 1, column k when it is 0
EnsembleAt(a, axis, k) ==
    IF axis = 1 THEN a[k] ELSE [i \in 1..Len(a) |-> a[i][k]]

NumPoints(a, axis) == IF axis = 1 THEN Len(a) ELSE Len(a[1])

ValuesOf(v) == {v[i] : i \in 1..Len(v)}

MaxOf(v) == CHOOSE m \in ValuesOf(v) : \A x \in ValuesOf(v) : x <= m

MinOf(v) == CHOOSE m \in ValuesOf(v) : \A x \in ValuesOf(v) : m <= x

\* the r-th smallest value of v, by counting
OrderStat(v, r) ==
    CHOOSE x \in ValuesOf(v) :
        /\ Cardinality({i \in 1..Len(v) : v[i] < x}) < r
        /\ Cardinality({i \in 1..Len(v) : v[i] <= x}) >= r

\* twice the median of v: the middle value, or the sum of the two middle ones
TwiceMedian(v) ==
    LET n == Len(v)
    IN  IF n % 2 = 1 THEN 2 * OrderStat(v, (n + 1) \div 2)
        ELSE OrderStat(v, n \div 2) + OrderStat(v, n \div 2 + 1)

\* the summaries of one ensemble, in the units of a percentile curve (x 200)
Max200(v) == 200 * MaxOf(v)
Min200(v) == 200 * MinOf(v)
Median200(v) == 100 * TwiceMedian(v)

\* line l is the curve F of data set g, point by point (both coordinates of
\* an orbit)
IsPointwise(l, g, F(_)) ==
    /\ l.ydiv = 200
    /\ l.y = [k \in 1..NumPoints(g.ya, g.axis) |-> F(EnsembleAt(g.ya, g.axis, k))]
    /\ IF g.stored THEN l.x = g.xs /\ l.xdiv = 1
       ELSE /\ l.xdiv = 200
            /\ l.x = [k \in 1..NumPoints(g.xa, g.axis) |->
                        F(EnsembleAt(g.xa, g.axis, k))]

SameCurve(l1, l2) ==
    l1.x = l2.x /\ l1.xdiv = l2.xdiv /\ l1.y = l2.y /\ l1.ydiv = l2.ydiv

\* C12: in every returned figure, the two curves drawn for conf_interval
\* value 0 are identical and are the pointwise median of the ensemble of
\* their data set, and of the two curves drawn for conf_interval value 100
\* one is the pointwise maximum and the other the pointwise minimum of the
\* ensemble of their data set.
C12_ConfExtremes ==
    ReturnedOk =>
      \A i \in FigIdx :
        LET ls == ret.figs[i].lines
            gs == DataSets(i)
        IN  \A a \in 1..Len(ls) :
              IsConfPair(ls, a) =>
                /\ ConfValueOf(ls[a]) = 0 =>
                      /\ SameCurve(ls[a], ls[a + 1])
                      /\ \E k \in 1..Len(gs) :
                           /\ Tail(ls[a].legend_label.args) = gs[k].tag
                           /\ IsPointwise(ls[a], gs[k], Median200)
                /\ ConfValueOf(ls[a]) = 100 =>
                      \E k \in 1..Len(gs) :
                        /\ Tail(ls[a].legend_label.args) = gs[k].tag
                        /\ \/ /\ IsPointwise(ls[a], gs[k], Max200)
                              /\ IsPointwise(ls[a + 1], gs[k], Min200)
                           \/ /\ IsPointwise(ls[a], gs[k], Min200)
                              /\ IsPointwise(ls[a + 1], gs[k], Max200)

\* a call with conf_interval [0, 100] has returned a figure in which a pair
\* of value 0 and a pair of value 100 are drawn, the latter with two curves
\* that differ (the maximum is not the minimum)
C12_Witness ==
    /\ ReturnedOk
    /\ call.conf_interval = <<0, 100>>
    /\ \E i \in FigIdx :
         LET ls == ret.figs[i].lines
         IN  /\ \E a \in 1..Len(ls) : IsConfPair(ls, a) /\ ConfValueOf(ls[a]) = 0
             /\ \E a \in 1..Len(ls) :
                  /\ IsConfPair(ls, a) /\ ConfValueOf(ls[a]) = 100
                  /\ ~SameCurve(ls[a], ls[a + 1])

-----------------------------------------------------------------------------
(* C13 *)

StoredArraysUnchanged == obj' = obj

\* the list objects of the caller hold what the caller wrote in the call
CallerListsUnchanged ==
    Returned => /\ mem["percentile"] = call.percentile
                /\ mem["conf_interval"] = call.conf_interval

DefaultListsEmpty == mem["percentile=[]"] = <<>> /\ mem["conf_interval=[]"] = <<>>

\* a step from a returned call to a returned call is the repetition of the
\* call: it returns the same figure(s), line by line, or raises the same
\* exception
RepeatDrawsTheSame ==
    pc = "returned" /\ pc' = "returned" => ret' = ret /\ exc' = exc

\* C13: plotting is read-only and repeatable: no step changes the results
\* object (its stored arrays); after every call, also a repeated one, the
\* caller's percentile and conf_interval lists hold what they held before;
\* the shared default lists of the signatures are always empty; and the
\* repetition of a call with the same arguments returns the same curves as
\* the first call.
C13_ReadOnlyRepeatable ==
    /\ [][StoredArraysUnchanged]_vars
    /\ []CallerListsUnchanged
    /\ []DefaultListsEmpty
    /\ [][RepeatDrawsTheSame]_vars

\* plot_log_dec, which sorts its lists, has been called twice with an
\* unsorted percentile list and an unsorted conf_interval list and has
\* returned its figure both times
C13_Witness ==
    /\ ReturnedOk /\ runs = 2
    /\ obj.cls = "ST_CampbellResults" /\ call.method = "plot_log_dec"
    /\ call.percentile = <<100, 0>>
    /\ call.conf_interval = <<100, 40>>

====
